---------------------------- MODULE Spec2Model ----------------------------
(***************************************************************************)
(* The Mastermind-style game contract of contracts/my-game/src/lib.rs:     *)
(* the session store, the commit -> guess -> feedback loop, the            *)
(* verification gate (canonical public inputs, proof-blob parser, external  *)
(* verifier) and the Game Hub notifications.                               *)
(*                                                                         *)
(* Every public operation is one atomic action (a Soroban invocation       *)
(* either commits all its writes or none).  The answers of the external    *)
(* collaborators are inputs of the action: `auth` is the set of addresses  *)
(* whose approval the invocation carries, `hubOk` whether the Game Hub     *)
(* call returns, `verdict` what the verifier contract answers.  A panic,   *)
(* a failed require_auth and a failed Hub call trap the invocation: its    *)
(* writes are rolled back and only `last` records what happened.           *)
(***************************************************************************)
EXTENDS Integers, Sequences, FiniteSets, TLC

(***************************************************************************)
(* Bounds of the model and program constants.                              *)
(***************************************************************************)
\* How many start_game calls the Hub accepts in one behaviour.
MaxStarts == 2

\* const MAX_ATTEMPTS: u32 = 12;
MAX_ATTEMPTS == 12

\* One field of the proof system: 32 bytes.
FIELD_BYTES == 32

\* The blob's header: a 4-byte field count.
HEADER_BYTES == 4

\* A slip of the list: the middle candidate is missing.
PROOF_FIELD_CANDIDATES_without_440 == <<456, 234>>

\* A slip of the order: the candidates listed smallest first.
PROOF_FIELD_CANDIDATES_ascending == <<234, 440, 456>>

\* for proof_fields in [456u32, 440u32, 234u32]
PROOF_FIELD_CANDIDATES == <<456, 440, 234>>

\* The session ids in use.  Every operation reads and writes only
\* DataKey::Game(session_id), so one id is followed; OtherSession below is
\* an id that proofs for another session are built with.
SessionIds == {1}

Players == {"alice", "bob"}

Admin == "admin"

VerifierContract == "verifier"

Points == {100}

AuthSets == SUBSET Players

(***************************************************************************)
(* Option<T>: None is the empty sequence, Some(x) the one-element sequence. *)
(***************************************************************************)
None == <<>>

Some(x) == <<x>>

IsSome(o) == o # <<>>

IsNone(o) == o = <<>>

Unwrap(o) == o[1]

(***************************************************************************)
(* Bytes: sequences of 0..255.                                             *)
(***************************************************************************)
Zeros(n) == [i \in 1..n |-> 0]

\* u32::to_be_bytes
to_be_bytes(value) ==
    << (value \div 16777216) % 256,
       (value \div 65536) % 256,
       (value \div 256) % 256,
       value % 256 >>

\* let mut field = [0u8; 32]; field[28..32].copy_from_slice(&value.to_be_bytes())
append_u32_field(out, value) ==
    out \o Zeros(FIELD_BYTES - 4) \o to_be_bytes(value)

\* field[28] = value.get(0) ... field[31] = value.get(3)
append_bytes4_field(out, value) ==
    out \o Zeros(FIELD_BYTES - 4) \o <<value[1], value[2], value[3], value[4]>>

build_public_inputs(session_id, guess_id, commitment, guess, exact, partial) ==
    LET b0 == <<>>
        b1 == append_u32_field(b0, session_id)
        b2 == append_u32_field(b1, guess_id)
        b3 == b2 \o commitment
        b4 == append_bytes4_field(b3, guess)
        b5 == append_u32_field(b4, exact)
        b6 == append_u32_field(b5, partial)
    IN  b6

\* Result<Bytes, Error>
Ok(v) == [ok |-> TRUE, val |-> v, err |-> "Ok"]

Err(e) == [ok |-> FALSE, val |-> <<>>, err |-> e]

\* A slip of the slice: the header is not skipped, slice(0..pi_len).
RECURSIVE extract_from_candidate_header_kept(_, _, _)
extract_from_candidate_header_kept(proof_blob, rest_len, i) ==
    IF i > Len(PROOF_FIELD_CANDIDATES)
    THEN Err("InvalidProofBlob")
    ELSE LET proof_fields == PROOF_FIELD_CANDIDATES[i]
             proof_len == proof_fields * FIELD_BYTES
         IN  IF rest_len >= proof_len /\ (rest_len - proof_len) % FIELD_BYTES = 0
             THEN LET pi_len == rest_len - proof_len
                  IN  Ok(SubSeq(proof_blob, 1, pi_len))
             ELSE extract_from_candidate_header_kept(proof_blob, rest_len, i + 1)

\* A slip of the test: pi_len % 32 == 0 is not asked for.
RECURSIVE extract_from_candidate_unaligned(_, _, _)
extract_from_candidate_unaligned(proof_blob, rest_len, i) ==
    IF i > Len(PROOF_FIELD_CANDIDATES)
    THEN Err("InvalidProofBlob")
    ELSE LET proof_fields == PROOF_FIELD_CANDIDATES[i]
             proof_len == proof_fields * FIELD_BYTES
         IN  IF rest_len >= proof_len
             THEN LET pi_len == rest_len - proof_len
                  IN  Ok(SubSeq(proof_blob, HEADER_BYTES + 1, HEADER_BYTES + pi_len))
             ELSE extract_from_candidate_unaligned(proof_blob, rest_len, i + 1)

\* The loop over the candidate proof sizes, from candidate i on.
RECURSIVE extract_from_candidate(_, _, _)
extract_from_candidate(proof_blob, rest_len, i) ==
    IF i > Len(PROOF_FIELD_CANDIDATES)
    THEN Err("InvalidProofBlob")
    ELSE LET proof_fields == PROOF_FIELD_CANDIDATES[i]
             proof_len == proof_fields * FIELD_BYTES
         IN  IF rest_len >= proof_len /\ (rest_len - proof_len) % FIELD_BYTES = 0
             THEN LET pi_len == rest_len - proof_len
                  IN  Ok(SubSeq(proof_blob, HEADER_BYTES + 1, HEADER_BYTES + pi_len))
             ELSE extract_from_candidate(proof_blob, rest_len, i + 1)

extract_public_inputs_from_proof_blob(proof_blob) ==
    LET total_len == Len(proof_blob)
    IN  IF total_len < HEADER_BYTES
        THEN Err("InvalidProofBlob")
        ELSE extract_from_candidate(proof_blob, total_len - HEADER_BYTES, 1)

\* env.crypto().keccak256(&proof_blob): the model keeps a short stand-in for
\* the digest (the blob's length, header and final byte).
keccak256(proof_blob) ==
    <<Len(proof_blob)>> \o SubSeq(proof_blob, 1, HEADER_BYTES)
                        \o <<proof_blob[Len(proof_blob)]>>

(***************************************************************************)
(* Guesses.                                                                *)
(***************************************************************************)
\* A slip of the duplicate test: the last pair, d2 == d3, is not compared.
validate_guess_digits_missing_pair(guess) ==
    LET d0 == guess[1]
        d1 == guess[2]
        d2 == guess[3]
        d3 == guess[4]
    IN  IF \E d \in {d0, d1, d2, d3} : ~(d >= 1 /\ d <= 6)
        THEN Err("InvalidGuess")
        ELSE IF d0 = d1 \/ d0 = d2 \/ d0 = d3 \/ d1 = d2 \/ d1 = d3
             THEN Err("InvalidGuess")
             ELSE Ok(<<>>)

validate_guess_digits(guess) ==
    LET d0 == guess[1]
        d1 == guess[2]
        d2 == guess[3]
        d3 == guess[4]
    IN  IF \E d \in {d0, d1, d2, d3} : ~(d >= 1 /\ d <= 6)
        THEN Err("InvalidGuess")
        ELSE IF d0 = d1 \/ d0 = d2 \/ d0 = d3 \/ d1 = d2 \/ d1 = d3 \/ d2 = d3
             THEN Err("InvalidGuess")
             ELSE Ok(<<>>)

RECURSIVE guess_by_id_from(_, _, _)
guess_by_id_from(game, guess_id, i) ==
    IF i > Len(game.guesses)
    THEN None
    ELSE IF game.guesses[i].guess_id = guess_id
         THEN Some(game.guesses[i].guess)
         ELSE guess_by_id_from(game, guess_id, i + 1)

guess_by_id(game, guess_id) == guess_by_id_from(game, guess_id, 1)

(***************************************************************************)
(* The inputs the environment draws from.                                  *)
(***************************************************************************)
Commitment1 == [i \in 1..32 |-> 17]

Commitment2 == [i \in 1..32 |-> IF i = 32 THEN 1 ELSE 0]

Commitments == {Commitment1, Commitment2}

\* The codebreaker's valid codes, one per round: the twelve guesses of
\* test_attempt_cap_player1_wins_on_twelfth_feedback.
RoundGuesses ==
    << <<1, 2, 3, 5>>, <<1, 2, 3, 6>>, <<1, 2, 4, 5>>, <<1, 2, 4, 6>>,
       <<1, 2, 5, 6>>, <<1, 3, 4, 5>>, <<1, 3, 4, 6>>, <<1, 3, 5, 6>>,
       <<1, 4, 5, 6>>, <<2, 3, 4, 5>>, <<2, 3, 4, 6>>, <<2, 3, 5, 6>> >>

\* Codes the contract must refuse: a repeated digit, a digit above 6, a
\* digit 0, the last two digits equal.
BadGuesses == { <<1, 1, 2, 3>>, <<1, 2, 3, 7>>, <<0, 2, 3, 4>>, <<6, 5, 4, 4>> }

\* The codes submitted in round n (n guesses accepted so far).
GuessCodes(n) == { RoundGuesses[(n % Len(RoundGuesses)) + 1] } \cup BadGuesses

\* The codemaker's claim for a guess that is not solved, one per round.
RoundCounts == << <<1, 1>>, <<0, 4>>, <<0, 0>>, <<3, 1>>, <<2, 2>> >>

\* (exact, partial) pairs submitted in round n: the round's claim, the
\* solved claim, and pairs the contract must refuse.
FeedbackCounts(n) ==
    { RoundCounts[(n % Len(RoundCounts)) + 1], <<4, 0>> }
        \cup { <<4, 1>>, <<3, 2>>, <<5, 0>>, <<0, 5>> }

\* The proof part of a blob: proof_fields 32-byte fields of 1s (test.rs).
ProofBytes(proof_fields) == [i \in 1..(proof_fields * FIELD_BYTES) |-> 1]

Proof456 == ProofBytes(456)

Proof440 == ProofBytes(440)

Proof234 == ProofBytes(234)

Proof100 == ProofBytes(100)

\* The proof attached in round n: the three known sizes in turn.
RoundProof(n) ==
    CASE n % 3 = 0 -> Proof440
      [] n % 3 = 1 -> Proof456
      [] OTHER     -> Proof234

\* test.rs build_proof_blob: header (total field count), public inputs, proof.
build_proof_blob(public_inputs, proof_bytes) ==
    to_be_bytes((Len(proof_bytes) + Len(public_inputs)) \div FIELD_BYTES)
        \o public_inputs \o proof_bytes

OtherSession(session_id) == IF session_id = 1 THEN 2 ELSE 1

OtherCommitment(c) == IF c = Commitment1 THEN Commitment2 ELSE Commitment1

\* The artifacts a codemaker submits for the claim (session_id, guess_id,
\* commitment, guess, exact, partial): the well-formed one, artifacts built
\* for a claim that differs in one component, and malformed ones.
ProofBlobs(session_id, guess_id, commitment, guess, exact, partial) ==
    LET pi == build_public_inputs(session_id, guess_id, commitment, guess, exact, partial)
        proof == RoundProof(guess_id)
    IN  { build_proof_blob(pi, proof),
          build_proof_blob(build_public_inputs(session_id, guess_id, commitment,
                                               guess, exact, partial + 1), proof),
          build_proof_blob(build_public_inputs(session_id, guess_id, commitment,
                                               guess, partial, exact), proof),
          build_proof_blob(build_public_inputs(OtherSession(session_id), guess_id,
                                               commitment, guess, exact, partial), proof),
          build_proof_blob(build_public_inputs(session_id, guess_id + 1, commitment,
                                               guess, exact, partial), proof),
          build_proof_blob(build_public_inputs(session_id, guess_id,
                                               OtherCommitment(commitment),
                                               guess, exact, partial), proof),
          build_proof_blob(build_public_inputs(session_id, guess_id, commitment,
                                               <<guess[4], guess[3], guess[2], guess[1]>>,
                                               exact, partial), proof),
          build_proof_blob(SubSeq(pi, 1, Len(pi) - FIELD_BYTES), proof),
          build_proof_blob(pi \o Zeros(FIELD_BYTES), proof),
          build_proof_blob(pi, proof) \o <<1>>,
          build_proof_blob(pi, Proof100),
          <<0, 0, 1>> }

Verdicts == { "Ok", "VkParseError", "ProofParseError", "VerificationFailed",
              "VkNotSet", "CallFailed" }

\* The guess ids a feedback call names in round n: the id handed out last,
\* the one before it, the one not handed out yet, and the first.
GuessIds(n) == { n - 2, n - 1, n, 0 } \cap (0..MAX_ATTEMPTS)

(***************************************************************************)
(* State.                                                                  *)
(*   games            temporary storage, DataKey::Game(session_id)         *)
(*   verifier_address instance storage, DataKey::VerifierAddress           *)
(*   hub              what the Game Hub has been notified of, per session  *)
(*                    id: the number of start_game calls and the outcomes   *)
(*                    of the end_game calls, in order                       *)
(*   parsed           a run of the proof-blob parser on its own: the blob  *)
(*                    it is given (as the parts it is built from) and its   *)
(*                    result; NotRun in the contract's behaviours           *)
(*   last             the latest invocation: operation, session id, the    *)
(*                    approvals it carried, its result and returned value    *)
(***************************************************************************)
VARIABLES games, verifier_address, hub, last, parsed

vars == <<games, verifier_address, hub, last, parsed>>

\* No run of the parser on its own.
NotRun == [input |-> None, output |-> None]

\* The constructor stores the admin and the Game Hub address; no session
\* exists and no verifier is set.
Init ==
    /\ games = [s \in SessionIds |-> None]
    /\ verifier_address = None
    /\ hub = [s \in SessionIds |-> [starts |-> 0, ends |-> <<>>]]
    /\ last = [op |-> "constructor", sid |-> 0, auth |-> {}, res |-> "Ok", val |-> 0]
    /\ parsed = NotRun

(***************************************************************************)
(* The outcome of an invocation in the current state: its result, the      *)
(* value it returns, and the session store and the Hub as it leaves them.  *)
(***************************************************************************)
\* The invocation returns the error, or traps ("Panic", "AuthFailed",
\* "HubFailed"): nothing is written and the Hub keeps nothing.
Rejected(res) == [res |-> res, val |-> 0, games |-> games, hub |-> hub]

\* write_game(session_id, game), then Ok(val); hub_after is the Hub after
\* the calls made on the way.
Written(session_id, game, val, hub_after) ==
    [res |-> "Ok", val |-> val,
     games |-> [games EXCEPT ![session_id] = Some(game)],
     hub |-> hub_after]

load_game(session_id) == games[session_id]

\* A slip: the approval is not asked for.
require_auth_skipped(address, auth) == TRUE

\* address.require_auth() / require_auth_for_args(..): the invocation goes on
\* only if it carries the address's approval.
require_auth(address, auth) == address \in auth

new_game(player1, player2, player1_points, player2_points) ==
    [ player1 |-> player1,
      player2 |-> player2,
      player1_points |-> player1_points,
      player2_points |-> player2_points,
      commitment |-> None,
      max_attempts |-> MAX_ATTEMPTS,
      attempts_used |-> 0,
      next_guess_id |-> 0,
      pending_guess_id |-> None,
      guesses |-> <<>>,
      feedbacks |-> <<>>,
      winner |-> None,
      solved |-> FALSE,
      ended |-> FALSE ]

\* GameHub::start_game, as the mock records it.
hub_start_game(session_id) == [hub EXCEPT ![session_id].starts = @ + 1]

\* GameHub::end_game(session_id, player1_won).
hub_end_game(session_id, player1_won) ==
    [hub EXCEPT ![session_id].ends = Append(@, player1_won)]

\* A slip: the two players are not compared.
self_play_allowed(player1, player2) == FALSE

\* if player1 == player2 { panic!("Cannot play against yourself") }
self_play(player1, player2) == player1 = player2

start_game(session_id, player1, player2, player1_points, player2_points, auth, hubOk) ==
    IF self_play(player1, player2)
    THEN Rejected("Panic")
    ELSE IF ~(require_auth(player1, auth) /\ require_auth(player2, auth))
    THEN Rejected("AuthFailed")
    ELSE IF ~hubOk
    THEN Rejected("HubFailed")
    ELSE Written(session_id,
                 new_game(player1, player2, player1_points, player2_points),
                 0, hub_start_game(session_id))

\* A slip: a commitment that is already set is not looked for.
commitment_check_left_out(game) == FALSE

\* if game.commitment.is_some()
commitment_already_set(game) == IsSome(game.commitment)

commit_code(session_id, commitment, auth) ==
    LET loaded == load_game(session_id)
        game == Unwrap(loaded)
    IN  IF IsNone(loaded) THEN Rejected("GameNotFound")
        ELSE IF game.ended THEN Rejected("GameAlreadyEnded")
        ELSE IF ~require_auth(game.player1, auth) THEN Rejected("AuthFailed")
        ELSE IF commitment_already_set(game) THEN Rejected("CommitmentAlreadySet")
        ELSE Written(session_id, [game EXCEPT !.commitment = Some(commitment)], 0, hub)

\* A slip: the guess is recorded and next_guess_id is not advanced.
record_guess_id_not_advanced(game, guess) ==
    [game EXCEPT !.pending_guess_id = Some(game.next_guess_id),
                 !.guesses = Append(@, [guess_id |-> game.next_guess_id, guess |-> guess])]

\* let guess_id = game.next_guess_id; game.next_guess_id += 1;
\* game.pending_guess_id = Some(guess_id); game.guesses.push_back(..)
record_guess(game, guess) ==
    [game EXCEPT !.next_guess_id = @ + 1,
                 !.pending_guess_id = Some(game.next_guess_id),
                 !.guesses = Append(@, [guess_id |-> game.next_guess_id, guess |-> guess])]

\* A slip: the pending-guess check is left out.
pending_check_left_out(game) == FALSE

\* if game.pending_guess_id.is_some()
has_pending_guess(game) == IsSome(game.pending_guess_id)

submit_guess(session_id, guess, auth) ==
    LET loaded == load_game(session_id)
        game == Unwrap(loaded)
    IN  IF IsNone(loaded) THEN Rejected("GameNotFound")
        ELSE IF game.ended THEN Rejected("GameAlreadyEnded")
        ELSE IF IsNone(game.commitment) THEN Rejected("CommitmentNotSet")
        ELSE IF game.attempts_used >= game.max_attempts THEN Rejected("AttemptsExhausted")
        ELSE IF has_pending_guess(game) THEN Rejected("GuessPendingFeedback")
        ELSE IF ~require_auth(game.player2, auth) THEN Rejected("AuthFailed")
        ELSE IF ~validate_guess_digits(guess).ok
        THEN Rejected(validate_guess_digits(guess).err)
        ELSE Written(session_id, record_guess(game, guess), game.next_guess_id, hub)

\* A slip: the sum of the two counts is not checked.
feedback_counts_invalid_no_sum(exact, partial) ==
    exact > 4 \/ partial > 4

\* if exact > 4 || partial > 4 || exact + partial > 4
feedback_counts_invalid(exact, partial) ==
    exact > 4 \/ partial > 4 \/ exact + partial > 4

\* A slip of the comparison: only the lengths of the two vectors are compared.
public_inputs_differ_in_length(expected_public_inputs, public_inputs) ==
    Len(expected_public_inputs) # Len(public_inputs)

\* if expected_public_inputs != public_inputs
public_inputs_differ(expected_public_inputs, public_inputs) ==
    expected_public_inputs # public_inputs

\* A slip of the match: Ok(_) instead of Ok(Ok(_)), so that only a failed
\* call is turned down and a verifier error passes.
verifier_accepts_outer_ok(verdict) == verdict # "CallFailed"

\* match verifier.try_verify_proof_with_stored_vk(..) { Ok(Ok(_)) => {}, _ => InvalidProof }
verifier_accepts(verdict) == verdict = "Ok"

\* game.feedbacks.push_back(..); game.pending_guess_id = None; game.attempts_used += 1
record_feedback(game, guess_id, exact, partial, proof_hash) ==
    [game EXCEPT !.feedbacks = Append(@, [guess_id |-> guess_id, exact |-> exact,
                                          partial |-> partial, proof_hash |-> proof_hash]),
                 !.pending_guess_id = None,
                 !.attempts_used = @ + 1]

\* if exact == 4
is_solved(exact) == exact = 4

\* A slip of the comparison: > for >=.
is_exhausted_strict(game) == game.attempts_used > game.max_attempts

\* else if game.attempts_used >= game.max_attempts
is_exhausted(game) == game.attempts_used >= game.max_attempts

\* game.solved = true; game.ended = true; game.winner = Some(player2)
end_solved(game) ==
    [game EXCEPT !.solved = TRUE, !.ended = TRUE, !.winner = Some(game.player2)]

\* A slip: the cap branch names the winner and leaves the session open.
end_exhausted_not_ended(game) ==
    [game EXCEPT !.solved = FALSE, !.winner = Some(game.player1)]

\* A slip: the cap branch names the codebreaker as winner.
end_exhausted_wrong_winner(game) ==
    [game EXCEPT !.solved = FALSE, !.ended = TRUE, !.winner = Some(game.player2)]

\* game.solved = false; game.ended = true; game.winner = Some(player1)
end_exhausted(game) ==
    [game EXCEPT !.solved = FALSE, !.ended = TRUE, !.winner = Some(game.player1)]

\* A slip: the guess id of the call is not compared with the pending one.
guess_id_mismatch_ignored(pending_guess_id, guess_id) == FALSE

\* if pending_guess_id != guess_id
guess_id_mismatch(pending_guess_id, guess_id) == pending_guess_id # guess_id

\* The first part of submit_feedback_proof: the checks on the stored session
\* and on the counts, before the proof blob is looked at.  "pass" or the error.
feedback_state_checks(session_id, guess_id, exact, partial, auth) ==
    LET loaded == load_game(session_id)
        game == Unwrap(loaded)
    IN  IF IsNone(loaded) THEN "GameNotFound"
        ELSE IF game.ended THEN "GameAlreadyEnded"
        ELSE IF ~require_auth(game.player1, auth) THEN "AuthFailed"
        ELSE IF IsNone(game.commitment) THEN "CommitmentNotSet"
        ELSE IF IsNone(game.pending_guess_id) THEN "NoPendingGuess"
        ELSE IF guess_id_mismatch(Unwrap(game.pending_guess_id), guess_id)
             THEN "InvalidGuessId"
        ELSE IF feedback_counts_invalid(exact, partial) THEN "InvalidFeedback"
        ELSE IF IsNone(guess_by_id(game, guess_id)) THEN "InvalidGuessId"
        ELSE "pass"

\* A slip of the order: the verifier is looked up and called before the
\* public inputs are compared.
verification_gate_verifier_first(session_id, guess_id, exact, partial, proof_blob, verdict) ==
    LET game == Unwrap(load_game(session_id))
        commitment == Unwrap(game.commitment)
        guess == Unwrap(guess_by_id(game, guess_id))
        expected_public_inputs ==
            build_public_inputs(session_id, guess_id, commitment, guess, exact, partial)
        public_inputs == extract_public_inputs_from_proof_blob(proof_blob)
    IN  IF ~public_inputs.ok THEN public_inputs.err
        ELSE IF IsNone(verifier_address) THEN "VerifierNotSet"
        ELSE IF ~verifier_accepts(verdict) THEN "InvalidProof"
        ELSE IF public_inputs_differ(expected_public_inputs, public_inputs.val)
        THEN "InvalidPublicInputs"
        ELSE "pass"

\* The verification gate: "pass" or the error it returns.
verification_gate(session_id, guess_id, exact, partial, proof_blob, verdict) ==
    LET game == Unwrap(load_game(session_id))
        commitment == Unwrap(game.commitment)
        guess == Unwrap(guess_by_id(game, guess_id))
        expected_public_inputs ==
            build_public_inputs(session_id, guess_id, commitment, guess, exact, partial)
        public_inputs == extract_public_inputs_from_proof_blob(proof_blob)
    IN  IF ~public_inputs.ok THEN public_inputs.err
        ELSE IF public_inputs_differ(expected_public_inputs, public_inputs.val)
        THEN "InvalidPublicInputs"
        ELSE IF IsNone(verifier_address) THEN "VerifierNotSet"
        ELSE IF ~verifier_accepts(verdict) THEN "InvalidProof"
        ELSE "pass"

\* A slip: the Hub is called with try_end_game and its failure is dropped, so
\* the ended session is written although the Hub took no notification.
apply_feedback_hub_failure_dropped(session_id, guess_id, exact, partial, proof_blob, hubOk) ==
    LET game == record_feedback(Unwrap(load_game(session_id)), guess_id, exact, partial,
                                keccak256(proof_blob))
        hub_after(player1_won) == IF hubOk THEN hub_end_game(session_id, player1_won)
                                  ELSE hub
    IN  IF is_solved(exact)
        THEN Written(session_id, end_solved(game), 0, hub_after(FALSE))
        ELSE IF is_exhausted(game)
        THEN Written(session_id, end_exhausted(game), 0, hub_after(TRUE))
        ELSE Written(session_id, game, 0, hub)

\* A slip of the branch order: the attempt cap is tested before exact == 4.
apply_feedback_cap_first(session_id, guess_id, exact, partial, proof_blob, hubOk) ==
    LET game == record_feedback(Unwrap(load_game(session_id)), guess_id, exact, partial,
                                keccak256(proof_blob))
    IN  IF is_exhausted(game)
        THEN IF ~hubOk THEN Rejected("HubFailed")
             ELSE Written(session_id, end_exhausted(game), 0, hub_end_game(session_id, TRUE))
        ELSE IF is_solved(exact)
        THEN IF ~hubOk THEN Rejected("HubFailed")
             ELSE Written(session_id, end_solved(game), 0, hub_end_game(session_id, FALSE))
        ELSE Written(session_id, game, 0, hub)

\* The last part of submit_feedback_proof: the record is appended, the game
\* is settled with the Hub if it is over, and the session is written.
apply_feedback(session_id, guess_id, exact, partial, proof_blob, hubOk) ==
    LET game == record_feedback(Unwrap(load_game(session_id)), guess_id, exact, partial,
                                keccak256(proof_blob))
    IN  IF is_solved(exact)
        THEN IF ~hubOk THEN Rejected("HubFailed")
             ELSE Written(session_id, end_solved(game), 0, hub_end_game(session_id, FALSE))
        ELSE IF is_exhausted(game)
        THEN IF ~hubOk THEN Rejected("HubFailed")
             ELSE Written(session_id, end_exhausted(game), 0, hub_end_game(session_id, TRUE))
        ELSE Written(session_id, game, 0, hub)

submit_feedback_proof(session_id, guess_id, exact, partial, proof_blob, auth, verdict, hubOk) ==
    LET checks == feedback_state_checks(session_id, guess_id, exact, partial, auth)
        gate == verification_gate(session_id, guess_id, exact, partial, proof_blob, verdict)
    IN  IF checks # "pass" THEN Rejected(checks)
        ELSE IF gate # "pass" THEN Rejected(gate)
        ELSE apply_feedback(session_id, guess_id, exact, partial, proof_blob, hubOk)

(***************************************************************************)
(* The next-state relation: an invocation takes the state to its outcome.  *)
(***************************************************************************)
Invoke(op, session_id, auth, outcome) ==
    /\ games' = outcome.games
    /\ hub' = outcome.hub
    /\ last' = [op |-> op, sid |-> session_id, auth |-> auth,
                res |-> outcome.res, val |-> outcome.val]
    /\ UNCHANGED <<verifier_address, parsed>>

\* The Hub-accepted start_game calls so far.
RECURSIVE SumStarts(_)
SumStarts(S) ==
    IF S = {} THEN 0
    ELSE LET s == CHOOSE x \in S : TRUE
         IN  hub[s].starts + SumStarts(S \ {s})

\* The round a session is in: the number of guesses accepted so far.
Round(session_id) ==
    IF IsNone(load_game(session_id)) THEN 0
    ELSE Unwrap(load_game(session_id)).next_guess_id

\* The blobs submitted with a feedback call.  When the checks on the stored
\* session reject the call no check reads the blob, and one blob stands for
\* all; otherwise the family built for the claim at hand.
FeedbackBlobs(session_id, guess_id, exact, partial, auth) ==
    IF feedback_state_checks(session_id, guess_id, exact, partial, auth) # "pass"
    THEN { <<0, 0, 1>> }
    ELSE LET game == Unwrap(load_game(session_id))
         IN  ProofBlobs(session_id, guess_id, Unwrap(game.commitment),
                        Unwrap(guess_by_id(game, guess_id)), exact, partial)

\* The verifier's answer is an input only of a call that consults it.
VerdictsFor(session_id, guess_id, exact, partial, proof_blob, auth) ==
    IF /\ feedback_state_checks(session_id, guess_id, exact, partial, auth) = "pass"
       /\ verification_gate(session_id, guess_id, exact, partial, proof_blob, "Ok") = "pass"
    THEN Verdicts
    ELSE { "Ok" }

\* The Hub's answer is an input only of a call that passes the gate.
HubAnswersFor(session_id, guess_id, exact, partial, proof_blob, auth, verdict) ==
    IF /\ feedback_state_checks(session_id, guess_id, exact, partial, auth) = "pass"
       /\ verification_gate(session_id, guess_id, exact, partial, proof_blob, verdict) = "pass"
    THEN BOOLEAN
    ELSE { TRUE }

StartGame ==
    /\ SumStarts(SessionIds) < MaxStarts
    /\ \E session_id \in SessionIds, player1 \in Players, player2 \in Players,
          points \in Points, auth \in AuthSets, hubOk \in BOOLEAN :
          Invoke("start_game", session_id, auth,
                 start_game(session_id, player1, player2, points, points, auth, hubOk))

CommitCode ==
    \E session_id \in SessionIds, commitment \in Commitments, auth \in AuthSets :
        Invoke("commit_code", session_id, auth,
               commit_code(session_id, commitment, auth))

SubmitGuess ==
    \E session_id \in SessionIds, auth \in AuthSets :
        \E guess \in GuessCodes(Round(session_id)) :
            Invoke("submit_guess", session_id, auth,
                   submit_guess(session_id, guess, auth))

SubmitFeedbackProof ==
    \E session_id \in SessionIds, auth \in AuthSets :
      \E guess_id \in GuessIds(Round(session_id)) :
        \E counts \in FeedbackCounts(guess_id) :
          \E proof_blob \in FeedbackBlobs(session_id, guess_id, counts[1], counts[2], auth) :
            \E verdict \in VerdictsFor(session_id, guess_id, counts[1], counts[2],
                                       proof_blob, auth) :
              \E hubOk \in HubAnswersFor(session_id, guess_id, counts[1], counts[2],
                                         proof_blob, auth, verdict) :
                Invoke("submit_feedback_proof", session_id, auth,
                       submit_feedback_proof(session_id, guess_id, counts[1], counts[2],
                                             proof_blob, auth, verdict, hubOk))

\* set_verifier: admin.require_auth(), then the verifier address is stored.
SetVerifier ==
    \E adminApproved \in BOOLEAN :
        /\ verifier_address' = IF adminApproved THEN Some(VerifierContract)
                               ELSE verifier_address
        /\ last' = [op |-> "set_verifier", sid |-> 0,
                    auth |-> IF adminApproved THEN {Admin} ELSE {},
                    res |-> IF adminApproved THEN "Ok" ELSE "AuthFailed", val |-> 0]
        /\ UNCHANGED <<games, hub, parsed>>

Next ==
    \/ StartGame
    \/ CommitCode
    \/ SubmitGuess
    \/ SubmitFeedbackProof
    \/ SetVerifier

Spec == Init /\ [][Next]_vars

(***************************************************************************)
(* The contract with players that keep playing: the codebreaker keeps      *)
(* submitting guesses that are accepted, the codemaker keeps answering the *)
(* pending guess with a feedback that is accepted (the verifier and the    *)
(* Hub accept), and the admin configures the verifier.  Nothing else is    *)
(* assumed of the callers: any invocation may come in between.             *)
(***************************************************************************)
\* A submit_guess that returns Ok.
AcceptedGuess == SubmitGuess /\ last'.res = "Ok"

\* A submit_feedback_proof that returns Ok.
AcceptedFeedback == SubmitFeedbackProof /\ last'.res = "Ok"

\* A set_verifier approved by the admin.
VerifierConfigured == SetVerifier /\ last'.res = "Ok"

Fairness ==
    /\ WF_vars(AcceptedGuess)
    /\ WF_vars(AcceptedFeedback)
    /\ WF_vars(VerifierConfigured)

LiveSpec == Init /\ [][Next]_vars /\ Fairness

(***************************************************************************)
(* The proof-blob parser on its own: extract_public_inputs_from_proof_blob *)
(* is applied to blobs laid out as test.rs build_proof_blob lays them out  *)
(* (header, public inputs, proof fields), with proofs of the known sizes   *)
(* and of other sizes, whole and cut fields, and several headers.          *)
(***************************************************************************)
\* The claims public inputs are built for.
ParserTuples ==
    [ session_id : {1, 70000},
      guess_id   : {0, 11},
      commitment : Commitments,
      guess      : { <<1, 2, 3, 4>>, <<6, 5, 4, 3>> },
      counts     : { <<4, 0>>, <<1, 2>> } ]

\* The number of 32-byte fields after the public inputs: the three known
\* proof sizes and sizes around them.
ProofFieldCounts == {0, 100, 228, 233, 234, 300, 434, 440, 450, 456, 472}

\* Bytes after the last whole field.
ExtraBytes == {0, 1, 31}

\* What the 4 header bytes hold: the field count (test.rs), zeros, 0xff.
Headers == {"count", "zero", "ones"}

ParserInputs ==
    [ kind : {"built"}, tuple : ParserTuples, proof_fields : ProofFieldCounts,
      extra : ExtraBytes, header : Headers ]
    \cup
    [ kind : {"short"},
      tuple : { [ session_id |-> 1, guess_id |-> 0, commitment |-> Commitment1,
                  guess |-> <<1, 2, 3, 4>>, counts |-> <<4, 0>> ] },
      proof_fields : {0}, extra : 0..3, header : Headers ]

HeaderOf(blob, header) ==
    CASE header = "count" -> SubSeq(blob, 1, HEADER_BYTES)
      [] header = "zero"  -> [i \in 1..HEADER_BYTES |-> 0]
      [] OTHER            -> [i \in 1..HEADER_BYTES |-> 255]

PublicInputsOf(tuple) ==
    build_public_inputs(tuple.session_id, tuple.guess_id, tuple.commitment,
                        tuple.guess, tuple.counts[1], tuple.counts[2])

\* The blob an input stands for.  A short one is the first `extra` bytes of
\* a header.
BlobOf(input) ==
    LET built == build_proof_blob(PublicInputsOf(input.tuple),
                                  ProofBytes(input.proof_fields)
                                      \o [i \in 1..input.extra |-> 1])
        blob == HeaderOf(built, input.header)
                    \o SubSeq(built, HEADER_BYTES + 1, Len(built))
    IN  IF input.kind = "short" THEN SubSeq(blob, 1, input.extra) ELSE blob

ParserInit ==
    /\ games = [s \in SessionIds |-> None]
    /\ verifier_address = None
    /\ hub = [s \in SessionIds |-> [starts |-> 0, ends |-> <<>>]]
    /\ last = [op |-> "constructor", sid |-> 0, auth |-> {}, res |-> "Ok", val |-> 0]
    /\ parsed \in { [input |-> Some(i), output |-> None] : i \in ParserInputs }

ParseBlob ==
    /\ parsed.input # None
    /\ parsed.output = None
    /\ parsed' = [parsed EXCEPT !.output =
                     Some(extract_public_inputs_from_proof_blob(BlobOf(Unwrap(parsed.input))))]
    /\ UNCHANGED <<games, verifier_address, hub, last>>

ParserNext == ParseBlob

ParserSpec == ParserInit /\ [][ParserNext]_vars

(***************************************************************************)
(* Properties.                                                             *)
(***************************************************************************)
\* The stored session, for a session id that has one.
Session(session_id) == Unwrap(games[session_id])

HasSession(session_id) == IsSome(games[session_id])

\* The checks of a feedback call on the stored session, as the
\* specification words them: the session exists and is not ended, the
\* codemaker approved, the commitment is set, guess_id is the pending id and
\* the counts are valid.
FeedbackStateChecksPass(session_id, guess_id, exact, partial, auth) ==
    /\ HasSession(session_id)
    /\ ~Session(session_id).ended
    /\ Session(session_id).player1 \in auth
    /\ Session(session_id).commitment # None
    /\ Session(session_id).pending_guess_id = Some(guess_id)
    /\ exact <= 4 /\ partial <= 4 /\ exact + partial <= 4

\* The canonical encoding of the claim a feedback call makes: session id,
\* pending guess id, stored commitment, the guess recorded under that id,
\* exact and partial.
CanonicalPublicInputs(session_id, exact, partial) ==
    LET game == Session(session_id)
        gid == Unwrap(game.pending_guess_id)
        recorded == CHOOSE r \in { game.guesses[i] : i \in 1..Len(game.guesses) } :
                        r.guess_id = gid
    IN  build_public_inputs(session_id, gid, Unwrap(game.commitment),
                            recorded.guess, exact, partial)

\* C1 (proof binding).  In every reachable state, a feedback call that
\* passes the checks on the stored session, with a blob from which the
\* parser extracts a public-input vector that is not byte-equal to the
\* canonical encoding of (session_id, pending guess id, stored commitment,
\* recorded guess, exact, partial), returns InvalidPublicInputs and writes
\* nothing, whatever the verifier and the Hub answer; a call whose blob is
\* not bound to that encoding never appends a record; and the record an
\* accepted call appends holds the call's guess id, exact and partial.
C1_ProofBinding ==
    \A session_id \in SessionIds, auth \in AuthSets :
      \A guess_id \in GuessIds(Round(session_id)) :
        \A counts \in FeedbackCounts(guess_id) :
          FeedbackStateChecksPass(session_id, guess_id, counts[1], counts[2], auth) =>
            \A proof_blob \in FeedbackBlobs(session_id, guess_id, counts[1], counts[2], auth) :
              LET embedded == extract_public_inputs_from_proof_blob(proof_blob)
                  canonical == CanonicalPublicInputs(session_id, counts[1], counts[2])
                  bound == embedded.ok /\ embedded.val = canonical
                  appended == Append(Session(session_id).feedbacks,
                                     [guess_id |-> guess_id, exact |-> counts[1],
                                      partial |-> counts[2],
                                      proof_hash |-> keccak256(proof_blob)])
              IN  \A verdict \in Verdicts, hubOk \in BOOLEAN :
                    LET out == submit_feedback_proof(session_id, guess_id, counts[1],
                                   counts[2], proof_blob, auth, verdict, hubOk)
                    IN  /\ (embedded.ok /\ ~bound) =>
                              /\ out.res = "InvalidPublicInputs"
                              /\ out.games = games
                              /\ out.hub = hub
                        /\ out.games # games =>
                              /\ bound
                              /\ Unwrap(out.games[session_id]).feedbacks = appended

\* C1 witness: a feedback call for the pending guess was turned down with
\* InvalidPublicInputs.
C1_Witness ==
    /\ last.op = "submit_feedback_proof"
    /\ last.res = "InvalidPublicInputs"
    /\ HasSession(last.sid)
    /\ Session(last.sid).pending_guess_id # None

\* The errors of the verification gate.
VerificationErrors ==
    { "InvalidProofBlob", "InvalidPublicInputs", "VerifierNotSet", "InvalidProof" }

\* C2 (failed verification changes nothing).  In every reachable state, a
\* feedback call that passes the checks on the stored session and fails
\* verification, because no public inputs can be extracted from the blob, or
\* they differ from the canonical encoding, or no verifier is configured, or
\* the verifier does not accept, returns one of InvalidProofBlob,
\* InvalidPublicInputs, VerifierNotSet, InvalidProof; and a call that returns
\* one of these leaves every session (attempts_used, pending_guess_id,
\* guesses, feedbacks, ended, solved, winner) as it was and sends nothing to
\* the Hub.
C2_FailedVerificationUnchanged ==
    \A session_id \in SessionIds, auth \in AuthSets :
      \A guess_id \in GuessIds(Round(session_id)) :
        \A counts \in FeedbackCounts(guess_id) :
          \A proof_blob \in FeedbackBlobs(session_id, guess_id, counts[1], counts[2], auth) :
            \A verdict \in Verdicts, hubOk \in BOOLEAN :
              LET out == submit_feedback_proof(session_id, guess_id, counts[1],
                             counts[2], proof_blob, auth, verdict, hubOk)
                  embedded == extract_public_inputs_from_proof_blob(proof_blob)
                  fails ==
                      \/ ~embedded.ok
                      \/ embedded.val # CanonicalPublicInputs(session_id, counts[1], counts[2])
                      \/ verifier_address = None
                      \/ verdict # "Ok"
              IN  /\ ( /\ FeedbackStateChecksPass(session_id, guess_id, counts[1],
                                                  counts[2], auth)
                       /\ fails ) => out.res \in VerificationErrors
                  /\ out.res \in VerificationErrors =>
                        /\ out.games = games
                        /\ out.hub = hub

\* C2 witness: the verifier turned a proof down and the guess is still
\* pending.
C2_Witness ==
    /\ last.op = "submit_feedback_proof"
    /\ last.res = "InvalidProof"
    /\ HasSession(last.sid)
    /\ Session(last.sid).pending_guess_id # None
    /\ Len(Session(last.sid).feedbacks) < Len(Session(last.sid).guesses)

\* Every code a submit_guess call is made with.
AllGuessCodes == UNION { GuessCodes(n) : n \in 0..MAX_ATTEMPTS }

\* C3 (one guess outstanding).  In every reachable state where
\* pending_guess_id is set, submit_guess with any code and any approvals
\* returns GuessPendingFeedback and changes nothing; and the guesses recorded
\* never outnumber the feedbacks by more than one.
C3_OneGuessOutstanding ==
    \A session_id \in SessionIds :
      HasSession(session_id) =>
        /\ Len(Session(session_id).guesses) <= Len(Session(session_id).feedbacks) + 1
        /\ Session(session_id).pending_guess_id # None =>
             /\ Len(Session(session_id).guesses) = Len(Session(session_id).feedbacks) + 1
             /\ \A auth \in AuthSets, guess \in AllGuessCodes :
                  LET out == submit_guess(session_id, guess, auth)
                  IN  /\ out.res = "GuessPendingFeedback"
                      /\ out.games = games
                      /\ out.hub = hub

\* C3 witness: a guess was turned down because another one is pending.
C3_Witness ==
    /\ last.op = "submit_guess"
    /\ last.res = "GuessPendingFeedback"
    /\ Session(last.sid).pending_guess_id # None

\* C4 (attempt cap).  In every reachable state attempts_used <=
\* max_attempts = 12, and a game that is ended without being solved has used
\* all 12 attempts; the accepted feedback that brings attempts_used to
\* max_attempts with exact < 4 is made on a game that is not ended and
\* leaves it ended, not solved, won by player1, with attempts_used = 12.
C4_AttemptCap ==
    \A session_id \in SessionIds :
      HasSession(session_id) =>
        /\ Session(session_id).max_attempts = 12
        /\ Session(session_id).attempts_used <= Session(session_id).max_attempts
        /\ (Session(session_id).ended /\ ~Session(session_id).solved) =>
              Session(session_id).attempts_used = Session(session_id).max_attempts
        /\ Session(session_id).attempts_used + 1 = Session(session_id).max_attempts =>
             \A auth \in AuthSets, guess_id \in GuessIds(Round(session_id)) :
               \A counts \in { c \in FeedbackCounts(guess_id) : c[1] < 4 } :
                 \A proof_blob \in FeedbackBlobs(session_id, guess_id, counts[1],
                                                 counts[2], auth) :
                   \A verdict \in Verdicts, hubOk \in BOOLEAN :
                     LET out == submit_feedback_proof(session_id, guess_id, counts[1],
                                    counts[2], proof_blob, auth, verdict, hubOk)
                         after == Unwrap(out.games[session_id])
                     IN  out.res = "Ok" =>
                           /\ ~Session(session_id).ended
                           /\ after.ended
                           /\ ~after.solved
                           /\ after.winner = Some(after.player1)
                           /\ after.attempts_used = 12

\* C4 witness: the twelfth feedback, with exact < 4, was accepted and the
\* game is over.
C4_Witness ==
    /\ last.op = "submit_feedback_proof"
    /\ last.res = "Ok"
    /\ Session(last.sid).attempts_used = 12
    /\ Session(last.sid).feedbacks[12].exact < 4
    /\ Session(last.sid).ended

\* C5 (one Hub end per session id), as the specification states it: the Hub
\* has exactly one end notification for a session id whose session is ended,
\* and never more than one for a session id.  start_game writes a fresh
\* session over an ended one, which then ends again: TLC finds a second
\* notification for the same session id.
C5_ExactlyOneHubEnd ==
    \A session_id \in SessionIds :
      /\ Len(hub[session_id].ends) <= 1
      /\ (HasSession(session_id) /\ Session(session_id).ended) =>
            Len(hub[session_id].ends) = 1
      /\ ~HasSession(session_id) => Len(hub[session_id].ends) = 0

\* C6 (solved path).  In every reachable state, an accepted feedback with
\* exact = 4 leaves the session solved, ended, won by player2 and sends the
\* Hub one end notification with player1_won = false, also when it is the
\* feedback that brings attempts_used to max_attempts; and the last
\* notification the Hub has for an ended session says player1_won exactly
\* when the stored winner is player1.
C6_SolvedPath ==
    \A session_id \in SessionIds :
      HasSession(session_id) =>
        /\ Session(session_id).ended =>
             /\ hub[session_id].ends # <<>>
             /\ hub[session_id].ends[Len(hub[session_id].ends)]
                  = (Session(session_id).winner = Some(Session(session_id).player1))
        /\ \A auth \in AuthSets, guess_id \in GuessIds(Round(session_id)) :
             \A counts \in { c \in FeedbackCounts(guess_id) : c[1] = 4 } :
               \A proof_blob \in FeedbackBlobs(session_id, guess_id, counts[1],
                                               counts[2], auth) :
                 \A verdict \in Verdicts, hubOk \in BOOLEAN :
                   LET out == submit_feedback_proof(session_id, guess_id, counts[1],
                                  counts[2], proof_blob, auth, verdict, hubOk)
                       after == Unwrap(out.games[session_id])
                   IN  out.res = "Ok" =>
                         /\ after.solved
                         /\ after.ended
                         /\ after.winner = Some(after.player2)
                         /\ out.hub[session_id].ends
                              = Append(hub[session_id].ends, FALSE)

\* C6 witness: the twelfth feedback was accepted with exact = 4 and the game
\* is solved.
C6_Witness ==
    /\ last.op = "submit_feedback_proof"
    /\ last.res = "Ok"
    /\ Session(last.sid).attempts_used = Session(last.sid).max_attempts
    /\ Session(last.sid).feedbacks[12].exact = 4
    /\ Session(last.sid).solved
    /\ hub[last.sid].ends[Len(hub[last.sid].ends)] = FALSE

\* C7 (outcome invariants).  Every reachable session satisfies: ended
\* implies winner set; solved implies winner = player2; attempts_used =
\* max_attempts and not solved implies ended and winner = player1; and while
\* not ended, winner is unset and solved is false.
C7_OutcomeInvariants ==
    \A session_id \in SessionIds :
      HasSession(session_id) =>
        LET game == Session(session_id)
        IN  /\ game.ended => game.winner # None
            /\ game.solved => game.winner = Some(game.player2)
            /\ (game.attempts_used = game.max_attempts /\ ~game.solved) =>
                  (game.ended /\ game.winner = Some(game.player1))
            /\ ~game.ended => (game.winner = None /\ ~game.solved)

\* C7 witness: a game ended by the attempt cap.
C7_Witness ==
    \E session_id \in SessionIds :
      /\ HasSession(session_id)
      /\ Session(session_id).attempts_used = Session(session_id).max_attempts
      /\ ~Session(session_id).solved
      /\ Session(session_id).winner = Some(Session(session_id).player1)

\* C8 (Ended is terminal), as the specification states it: once the session
\* of a session id is ended, no operation makes ended false again or changes
\* winner, solved, attempts_used, guesses or feedbacks, and commit_code,
\* submit_guess and submit_feedback_proof on it return GameAlreadyEnded.
\* start_game has no check on the stored session and writes a fresh one over
\* an ended one: TLC finds the step.
C8_EndedIsTerminal ==
    [][ \A session_id \in SessionIds :
          (HasSession(session_id) /\ Session(session_id).ended) =>
            /\ Unwrap(games'[session_id]).ended
            /\ Unwrap(games'[session_id]).winner = Session(session_id).winner
            /\ Unwrap(games'[session_id]).solved = Session(session_id).solved
            /\ Unwrap(games'[session_id]).attempts_used = Session(session_id).attempts_used
            /\ Unwrap(games'[session_id]).guesses = Session(session_id).guesses
            /\ Unwrap(games'[session_id]).feedbacks = Session(session_id).feedbacks
            /\ ( /\ last'.sid = session_id
                 /\ last'.op \in {"commit_code", "submit_guess", "submit_feedback_proof"} )
                  => last'.res = "GameAlreadyEnded" ]_vars

\* The two rules of a code: every digit in [1,6], the four digits pairwise
\* distinct.
ValidCode(guess) ==
    /\ \A i \in 1..4 : guess[i] >= 1 /\ guess[i] <= 6
    /\ \A i, j \in 1..4 : i # j => guess[i] # guess[j]

\* C9 (guess validation).  Every guess recorded in a reachable session has
\* four digits in [1,6], pairwise distinct; and a submit_guess call on a
\* session that is not ended, has its commitment set, attempts left and
\* nothing pending, approved by player2, with a code that breaks either rule,
\* returns InvalidGuess and changes nothing.
C9_GuessValidation ==
    \A session_id \in SessionIds :
      HasSession(session_id) =>
        LET game == Session(session_id)
        IN  /\ \A i \in 1..Len(game.guesses) :
                 /\ Len(game.guesses[i].guess) = 4
                 /\ ValidCode(game.guesses[i].guess)
            /\ ( /\ ~game.ended
                 /\ game.commitment # None
                 /\ game.attempts_used < game.max_attempts
                 /\ game.pending_guess_id = None ) =>
                 \A auth \in AuthSets, guess \in AllGuessCodes :
                   (game.player2 \in auth /\ ~ValidCode(guess)) =>
                     LET out == submit_guess(session_id, guess, auth)
                     IN  /\ out.res = "InvalidGuess"
                         /\ out.games = games
                         /\ out.hub = hub

\* C9 witness: a code was turned down with InvalidGuess after an earlier
\* guess had been recorded.
C9_Witness ==
    /\ last.op = "submit_guess"
    /\ last.res = "InvalidGuess"
    /\ Len(Session(last.sid).guesses) > 0
    /\ Session(last.sid).pending_guess_id = None

\* The counts a feedback call is made with that break a rule of the counts.
InvalidCounts ==
    { c \in UNION { FeedbackCounts(n) : n \in 0..MAX_ATTEMPTS } :
        c[1] > 4 \/ c[2] > 4 \/ c[1] + c[2] > 4 }

\* C10 (feedback counts).  Every feedback record stored in a reachable
\* session has exact <= 4, partial <= 4 and exact + partial <= 4; and a
\* feedback call for the pending guess, approved by player1, whose counts
\* break one of these returns InvalidFeedback and changes nothing, whatever
\* the blob holds (a well-formed proof of the canonical public inputs, other
\* public inputs, or bytes that do not parse) and whatever the verifier would
\* answer.
C10_FeedbackCounts ==
    \A session_id \in SessionIds :
      HasSession(session_id) =>
        LET game == Session(session_id)
        IN  /\ \A i \in 1..Len(game.feedbacks) :
                 /\ game.feedbacks[i].exact <= 4
                 /\ game.feedbacks[i].partial <= 4
                 /\ game.feedbacks[i].exact + game.feedbacks[i].partial <= 4
            /\ ( /\ ~game.ended
                 /\ game.commitment # None
                 /\ game.pending_guess_id # None ) =>
                 \A auth \in { a \in AuthSets : game.player1 \in a }, counts \in InvalidCounts :
                   LET guess_id == Unwrap(game.pending_guess_id)
                       blobs == ProofBlobs(session_id, guess_id, Unwrap(game.commitment),
                                           Unwrap(guess_by_id(game, guess_id)),
                                           counts[1], counts[2])
                   IN  \A proof_blob \in blobs, verdict \in Verdicts, hubOk \in BOOLEAN :
                         LET out == submit_feedback_proof(session_id, guess_id, counts[1],
                                        counts[2], proof_blob, auth, verdict, hubOk)
                         IN  /\ out.res = "InvalidFeedback"
                             /\ out.games = games
                             /\ out.hub = hub

\* C10 witness: a feedback call for the pending guess was turned down with
\* InvalidFeedback.
C10_Witness ==
    /\ last.op = "submit_feedback_proof"
    /\ last.res = "InvalidFeedback"
    /\ Session(last.sid).pending_guess_id # None
    /\ Session(last.sid).player1 \in last.auth

\* Every (exact, partial) pair a feedback call is made with.
AllFeedbackCounts == UNION { FeedbackCounts(n) : n \in 0..MAX_ATTEMPTS }

\* C11 (feedback only for the pending guess).  In every reachable state, a
\* feedback call that the codemaker approved on a session that is not ended
\* and has its commitment: returns InvalidGuessId and changes nothing when a
\* guess is pending and guess_id is not the pending id, whatever the counts
\* (valid or not) and the blob (well-formed for the named id, for the
\* pending id, or unparsable) and whatever the verifier answers; and returns
\* NoPendingGuess when no guess is pending.  The feedbacks stored are, in
\* order, for the guesses recorded: the i-th feedback has the i-th guess's
\* id, and a call that stores one names the pending id.
C11_FeedbackForPendingGuessOnly ==
    \A session_id \in SessionIds :
      HasSession(session_id) =>
        LET game == Session(session_id)
        IN  /\ Len(game.feedbacks) <= Len(game.guesses)
            /\ \A i \in 1..Len(game.feedbacks) :
                 game.feedbacks[i].guess_id = game.guesses[i].guess_id
            /\ (~game.ended /\ game.commitment # None) =>
                 \A auth \in { a \in AuthSets : game.player1 \in a } :
                   \A guess_id \in GuessIds(Round(session_id)), counts \in AllFeedbackCounts :
                     \A proof_blob \in
                          { <<0, 0, 1>> } \cup
                          {  build_proof_blob(
                               build_public_inputs(session_id, gid, Unwrap(game.commitment),
                                   RoundGuesses[(gid % Len(RoundGuesses)) + 1],
                                   counts[1], counts[2]),
                               RoundProof(gid)) : gid \in {guess_id} \cup
                                   { Unwrap(g) : g \in {game.pending_guess_id} \ {None} } } :
                       \A verdict \in Verdicts, hubOk \in BOOLEAN :
                         LET out == submit_feedback_proof(session_id, guess_id, counts[1],
                                        counts[2], proof_blob, auth, verdict, hubOk)
                         IN  /\ game.pending_guess_id = None =>
                                  /\ out.res = "NoPendingGuess"
                                  /\ out.games = games
                                  /\ out.hub = hub
                             /\ ( /\ game.pending_guess_id # None
                                  /\ game.pending_guess_id # Some(guess_id) ) =>
                                  /\ out.res = "InvalidGuessId"
                                  /\ out.games = games
                                  /\ out.hub = hub
                             /\ out.games # games =>
                                  game.pending_guess_id = Some(guess_id)

\* C11 witness: with guess 1 pending and guess 0 already resolved, a
\* feedback naming another id was turned down with InvalidGuessId.
C11_Witness ==
    /\ last.op = "submit_feedback_proof"
    /\ last.res = "InvalidGuessId"
    /\ Session(last.sid).pending_guess_id = Some(1)
    /\ Len(Session(last.sid).feedbacks) = 1

\* C12 (commitment set once, before any guess).  On every step: commit_code
\* approved by the codemaker on a session that is not ended and has a
\* commitment returns CommitmentAlreadySet and changes nothing, and no
\* commit_code changes a commitment that is set; submit_guess on a session
\* without commitment, and submit_feedback_proof approved by the codemaker on
\* one, return CommitmentNotSet and change nothing; a session with a guess
\* recorded has its commitment; and as long as a session has guesses its
\* commitment stays the one it had, so a feedback is verified against the
\* commitment the guess was submitted under.
C12_CommitmentSetOnce ==
    [][ \A session_id \in SessionIds :
          /\ games'[session_id] # None =>
               ( Unwrap(games'[session_id]).guesses # <<>> =>
                   Unwrap(games'[session_id]).commitment # None )
          /\ (HasSession(session_id) /\ last'.sid = session_id) =>
               LET game == Session(session_id)
                   unchanged == games' = games /\ hub' = hub
               IN  /\ ( /\ last'.op = "commit_code"
                        /\ game.commitment # None ) =>
                          /\ Unwrap(games'[session_id]).commitment = game.commitment
                          /\ (~game.ended /\ game.player1 \in last'.auth) =>
                                (last'.res = "CommitmentAlreadySet" /\ unchanged)
                   /\ ( /\ last'.op = "submit_guess"
                        /\ game.commitment = None ) =>
                          (last'.res = "CommitmentNotSet" /\ unchanged)
                   /\ ( /\ last'.op = "submit_feedback_proof"
                        /\ game.commitment = None
                        /\ game.player1 \in last'.auth ) =>
                          (last'.res = "CommitmentNotSet" /\ unchanged)
                   /\ ( /\ game.guesses # <<>>
                        /\ Unwrap(games'[session_id]).guesses # <<>> ) =>
                          Unwrap(games'[session_id]).commitment = game.commitment ]_vars

\* C12 witness: a second commit_code, made after a guess was recorded, was
\* turned down with CommitmentAlreadySet.
C12_Witness ==
    /\ last.op = "commit_code"
    /\ last.res = "CommitmentAlreadySet"
    /\ Session(last.sid).guesses # <<>>
    /\ Session(last.sid).commitment # None

\* The blob a codemaker would attach to the call: the well-formed one for
\* the pending guess when the call names it with valid counts.
WellFormedBlobs(session_id, guess_id, exact, partial) ==
    IF FeedbackStateChecksPass(session_id, guess_id, exact, partial,
                               {Session(session_id).player1})
    THEN { build_proof_blob(CanonicalPublicInputs(session_id, exact, partial),
                            RoundProof(guess_id)) }
    ELSE { <<0, 0, 1>> }

\* C14 (approval before mutation).  In every reachable state: start_game
\* without the approval of both named players, commit_code and
\* submit_feedback_proof without the approval of player1, and submit_guess
\* without the approval of player2 leave the session store and the Hub as
\* they were, whatever the other arguments are (a fresh commitment, a valid
\* code, the well-formed proof of the pending guess with an accepting
\* verifier).
C14_ApprovalRequired ==
    \A session_id \in SessionIds :
      /\ \A player1 \in Players, player2 \in Players, points \in Points :
           \A auth \in { a \in AuthSets : ~({player1, player2} \subseteq a) } :
             \A hubOk \in BOOLEAN :
               LET out == start_game(session_id, player1, player2, points, points,
                                     auth, hubOk)
               IN  out.games = games /\ out.hub = hub
      /\ HasSession(session_id) =>
           LET game == Session(session_id)
           IN  /\ \A auth \in { a \in AuthSets : game.player1 \notin a } :
                    /\ \A commitment \in Commitments :
                         LET out == commit_code(session_id, commitment, auth)
                         IN  out.games = games /\ out.hub = hub
                    /\ \A guess_id \in GuessIds(Round(session_id)) :
                         \A counts \in AllFeedbackCounts :
                           \A proof_blob \in WellFormedBlobs(session_id, guess_id,
                                                             counts[1], counts[2]) :
                             \A verdict \in Verdicts, hubOk \in BOOLEAN :
                               LET out == submit_feedback_proof(session_id, guess_id,
                                              counts[1], counts[2], proof_blob,
                                              auth, verdict, hubOk)
                               IN  out.games = games /\ out.hub = hub
               /\ \A auth \in { a \in AuthSets : game.player2 \notin a } :
                    \A guess \in AllGuessCodes :
                      LET out == submit_guess(session_id, guess, auth)
                      IN  out.games = games /\ out.hub = hub

\* C14 witness: a feedback call for the pending guess, made with the
\* verifier configured and without the codemaker's approval, was aborted.
C14_Witness ==
    /\ last.op = "submit_feedback_proof"
    /\ last.res = "AuthFailed"
    /\ Session(last.sid).player1 \notin last.auth
    /\ Session(last.sid).pending_guess_id # None
    /\ verifier_address # None

\* C15 (no self-play).  In every reachable state, start_game naming the same
\* address as player1 and player2 fails, whatever approvals it carries and
\* whether or not the Hub would accept it: no session is created or written
\* over and the Hub gets no start notification; and every stored session has
\* player1 # player2.
C15_NoSelfPlay ==
    \A session_id \in SessionIds :
      /\ HasSession(session_id) =>
           Session(session_id).player1 # Session(session_id).player2
      /\ \A player \in Players, points \in Points, auth \in AuthSets, hubOk \in BOOLEAN :
           LET out == start_game(session_id, player, player, points, points, auth, hubOk)
           IN  /\ out.res # "Ok"
               /\ out.games = games
               /\ out.hub = hub

\* C15 witness: start_game with one address in both roles was made on an
\* existing session id with that address's approval, and failed.
C15_Witness ==
    /\ last.op = "start_game"
    /\ last.res = "Panic"
    /\ last.auth # {}
    /\ HasSession(last.sid)
    /\ hub[last.sid].starts = 1

\* s is an initial segment of t.
IsPrefix(s, t) == Len(s) <= Len(t) /\ SubSeq(t, 1, Len(s)) = s

\* C16 (guess ids and append-only records), as the specification states it:
\* on every step, for a session id that has a session, next_guess_id does not
\* decrease, an accepted submit_guess returns the old next_guess_id, which is
\* the number of guesses recorded before it, and records the guess under that
\* id, and the guesses and feedbacks recorded before the step are still
\* there, unmodified, after it.  start_game writes a fresh session over a
\* stored one: next_guess_id goes back to 0, the recorded guesses and
\* feedbacks are gone, and id 0 is handed out again.  TLC finds the step.
C16_GuessIdsAppendOnly ==
    [][ \A session_id \in SessionIds :
          HasSession(session_id) =>
            LET game == Session(session_id)
                after == Unwrap(games'[session_id])
            IN  /\ after.next_guess_id >= game.next_guess_id
                /\ IsPrefix(game.guesses, after.guesses)
                /\ IsPrefix(game.feedbacks, after.feedbacks)
                /\ \A i \in 1..Len(after.guesses) : after.guesses[i].guess_id = i - 1
                /\ ( /\ last'.op = "submit_guess"
                     /\ last'.sid = session_id
                     /\ last'.res = "Ok" ) =>
                       /\ last'.val = game.next_guess_id
                       /\ last'.val = Len(game.guesses)
                       /\ after.next_guess_id = game.next_guess_id + 1
                       /\ Len(after.guesses) = Len(game.guesses) + 1
                       /\ after.guesses[Len(after.guesses)].guess_id = last'.val ]_vars

\* C19 (order of the verification gate).  In every reachable state, for a
\* feedback call that passes the checks on the stored session: a blob the
\* parser fails on gives InvalidProofBlob; otherwise public inputs that
\* differ from the canonical encoding give InvalidPublicInputs, with or
\* without a verifier configured and the same for every answer the verifier
\* could give (it is not asked); otherwise a missing verifier address gives
\* VerifierNotSet; otherwise every verifier answer other than success (each
\* VerifierError, a failed call) gives InvalidProof; and a call that appends
\* a feedback record had matching public inputs, a configured verifier and
\* the answer success.
C19_GateOrder ==
    \A session_id \in SessionIds, auth \in AuthSets :
      \A guess_id \in GuessIds(Round(session_id)) :
        \A counts \in FeedbackCounts(guess_id) :
          FeedbackStateChecksPass(session_id, guess_id, counts[1], counts[2], auth) =>
            \A proof_blob \in FeedbackBlobs(session_id, guess_id, counts[1], counts[2], auth) :
              \A verdict \in Verdicts, hubOk \in BOOLEAN :
                LET out == submit_feedback_proof(session_id, guess_id, counts[1],
                               counts[2], proof_blob, auth, verdict, hubOk)
                    embedded == extract_public_inputs_from_proof_blob(proof_blob)
                    matches == embedded.val =
                                 CanonicalPublicInputs(session_id, counts[1], counts[2])
                    expected ==
                        IF ~embedded.ok THEN {"InvalidProofBlob"}
                        ELSE IF ~matches THEN {"InvalidPublicInputs"}
                        ELSE IF verifier_address = None THEN {"VerifierNotSet"}
                        ELSE IF verdict # "Ok" THEN {"InvalidProof"}
                        ELSE {"Ok", "HubFailed"}
                IN  /\ out.res \in expected
                    /\ Len(Unwrap(out.games[session_id]).feedbacks)
                         > Len(Session(session_id).feedbacks) =>
                          /\ embedded.ok /\ matches
                          /\ verifier_address # None
                          /\ verdict = "Ok"

\* C19 witness: the well-formed proof of the pending guess met no configured
\* verifier.
C19_Witness ==
    /\ last.op = "submit_feedback_proof"
    /\ last.res = "VerifierNotSet"
    /\ verifier_address = None
    /\ Session(last.sid).pending_guess_id # None

\* C20 (a Hub failure aborts the operation).  In every reachable state: a
\* feedback call whose Hub end call fails, and a start_game whose Hub start
\* call fails, leave the session store and the Hub as they were (the session
\* not ended, the guess pending, attempts_used and feedbacks unchanged; no
\* session stored), also for the well-formed proof of a solving or twelfth
\* feedback that the verifier accepts; and a session that is ended has an end
\* notification accepted by the Hub, carrying its outcome.
C20_HubFailureAborts ==
    \A session_id \in SessionIds :
      /\ \A player1 \in Players, player2 \in Players, points \in Points, auth \in AuthSets :
           LET out == start_game(session_id, player1, player2, points, points, auth, FALSE)
           IN  /\ out.res # "Ok"
               /\ out.games = games
               /\ out.hub = hub
      /\ HasSession(session_id) =>
           /\ Session(session_id).ended =>
                /\ Len(hub[session_id].ends) >= 1
                /\ hub[session_id].ends[Len(hub[session_id].ends)]
                     = ~Session(session_id).solved
           /\ \A auth \in AuthSets, guess_id \in GuessIds(Round(session_id)) :
                \A counts \in FeedbackCounts(guess_id) :
                  \A proof_blob \in WellFormedBlobs(session_id, guess_id,
                                                    counts[1], counts[2]) :
                    \A verdict \in Verdicts :
                      LET out == submit_feedback_proof(session_id, guess_id, counts[1],
                                     counts[2], proof_blob, auth, verdict, FALSE)
                          ok == submit_feedback_proof(session_id, guess_id, counts[1],
                                     counts[2], proof_blob, auth, verdict, TRUE)
                      IN  /\ out.hub = hub
                          /\ (ok.hub # hub) =>
                                /\ out.res = "HubFailed"
                                /\ out.games = games

\* C20 witness: the Hub end call of a feedback that solves the game failed
\* and the guess is still pending.
C20_Witness ==
    /\ last.op = "submit_feedback_proof"
    /\ last.res = "HubFailed"
    /\ Session(last.sid).pending_guess_id # None
    /\ ~Session(last.sid).ended

\* The parser has run on the blob of parsed.input.
ParserHasRun == parsed.input # None /\ parsed.output # None

\* C13 (round trip).  Whenever the parser has run on a blob made of 4 header
\* bytes (whatever they hold), the builder's vector for a tuple (session_id,
\* guess_id, commitment, guess, exact, partial) and p 32-byte proof fields,
\* p one of 456, 440, 234, its result is Ok with a vector byte-identical to
\* the builder's output for that tuple.
C13_RoundTrip ==
    ( /\ ParserHasRun
      /\ Unwrap(parsed.input).kind = "built"
      /\ Unwrap(parsed.input).proof_fields \in {456, 440, 234}
      /\ Unwrap(parsed.input).extra = 0 ) =>
        /\ Unwrap(parsed.output).ok
        /\ Unwrap(parsed.output).val = PublicInputsOf(Unwrap(parsed.input).tuple)
        /\ Len(Unwrap(parsed.output).val) = 6 * 32

\* C13 witness: the parser has run on a blob with 456 proof fields built for
\* session 70000, guess id 11, and returned 192 bytes.
C13_Witness ==
    /\ ParserHasRun
    /\ Unwrap(parsed.input).kind = "built"
    /\ Unwrap(parsed.input).proof_fields = 456
    /\ Unwrap(parsed.input).extra = 0
    /\ Unwrap(parsed.input).tuple.session_id = 70000
    /\ Unwrap(parsed.input).tuple.guess_id = 11
    /\ Len(Unwrap(parsed.output).val) = 192

\* Candidate p qualifies for a blob of length L.
Qualifies(p, L) == (L - 4) >= 32 * p /\ ((L - 4) - 32 * p) % 32 = 0

\* The bytes of blob at the 0-based positions from <= k < to.
ByteRange(blob, from, to) == [k \in 1..(to - from) |-> blob[from + k]]

\* C17 (the parser is the priority list).  Whenever the parser has run on a
\* blob of length L: if L < 4 the result is InvalidProofBlob; otherwise, with
\* rest = L - 4, if some p of 456, 440, 234 has rest >= 32*p and
\* (rest - 32*p) mod 32 = 0, the result is Ok with the bytes [4, 4 + rest -
\* 32*p) of the blob for the first such p in that order, and it is
\* InvalidProofBlob if none has.  The result is the same whatever the 4
\* header bytes hold.
C17_PriorityList ==
    ParserHasRun =>
      LET input == Unwrap(parsed.input)
          output == Unwrap(parsed.output)
          blob == BlobOf(input)
          L == Len(blob)
          rest == L - 4
          invalid == ~output.ok /\ output.err = "InvalidProofBlob"
      IN  /\ L < 4 => invalid
          /\ L >= 4 =>
               IF Qualifies(456, L)
               THEN output.ok /\ output.val = ByteRange(blob, 4, 4 + rest - 32 * 456)
               ELSE IF Qualifies(440, L)
               THEN output.ok /\ output.val = ByteRange(blob, 4, 4 + rest - 32 * 440)
               ELSE IF Qualifies(234, L)
               THEN output.ok /\ output.val = ByteRange(blob, 4, 4 + rest - 32 * 234)
               ELSE invalid
          /\ \A header \in Headers :
               extract_public_inputs_from_proof_blob(
                   BlobOf([input EXCEPT !.header = header])) = output

\* C17 witness: the parser has turned down a blob that holds more bytes than
\* the smallest known proof but not a whole number of fields.
C17_Witness ==
    /\ ParserHasRun
    /\ Unwrap(parsed.input).kind = "built"
    /\ Unwrap(parsed.input).proof_fields >= 234
    /\ Unwrap(parsed.input).extra # 0
    /\ ~Unwrap(parsed.output).ok

\* The candidates that qualify for a blob of length L.
QualifyingCandidates(L) == { p \in {456, 440, 234} : Qualifies(p, L) }

\* The largest member of a non-empty set of numbers.
Largest(S) == CHOOSE p \in S : \A q \in S : q <= p

\* C18 as stated (mutually exclusive candidates).  Whenever the parser has
\* run on a blob of length L >= 4, at most one p of 456, 440, 234 has
\* (L - 4) >= 32*p and ((L - 4) - 32*p) mod 32 = 0, and the returned range is
\* the range of every candidate that qualifies, whichever is tried first.
C18_MutuallyExclusive ==
    ParserHasRun =>
      LET output == Unwrap(parsed.output)
          blob == BlobOf(Unwrap(parsed.input))
          L == Len(blob)
      IN  L >= 4 =>
            /\ Cardinality(QualifyingCandidates(L)) <= 1
            /\ \A p \in QualifyingCandidates(L) :
                 /\ output.ok
                 /\ output.val = ByteRange(blob, 4, 4 + (L - 4) - 32 * p)

\* C18 (the candidates are nested, not exclusive).  Whenever the parser has
\* run on a blob of length L >= 4: a candidate that qualifies makes every
\* smaller candidate qualify; exactly one qualifies only when 234 qualifies
\* and L - 4 < 32*440; the parser answers Ok exactly when some candidate
\* qualifies, with the range of the largest one, which is the first in the
\* order 456, 440, 234; and every other qualifying candidate would give a
\* range of another length, so the result depends on the order.
C18_NestedCandidates ==
    ParserHasRun =>
      LET output == Unwrap(parsed.output)
          blob == BlobOf(Unwrap(parsed.input))
          L == Len(blob)
          rest == L - 4
          qualifying == QualifyingCandidates(L)
      IN  L >= 4 =>
            /\ \A p \in qualifying : \A q \in {456, 440, 234} :
                 q < p => q \in qualifying
            /\ Cardinality(qualifying) = 1 <=>
                 (Qualifies(234, L) /\ rest < 32 * 440)
            /\ output.ok <=> qualifying # {}
            /\ qualifying # {} =>
                 /\ output.val = ByteRange(blob, 4, 4 + rest - 32 * Largest(qualifying))
                 /\ \A q \in qualifying \ {Largest(qualifying)} :
                      Len(ByteRange(blob, 4, 4 + rest - 32 * q)) # Len(output.val)

\* C18 witness: the parser has run on a blob for which all three candidates
\* qualify, and has answered with the range left by 456 proof fields.
C18_Witness ==
    /\ ParserHasRun
    /\ QualifyingCandidates(Len(BlobOf(Unwrap(parsed.input)))) = {456, 440, 234}
    /\ Unwrap(parsed.output).ok
    /\ Len(Unwrap(parsed.output).val) = Len(BlobOf(Unwrap(parsed.input))) - 4 - 32 * 456

\* C21 (the pending-guess lock), as the specification states it: on every
\* step, for a session id whose session has pending_guess_id = Some(g), if
\* the session's pending_guess_id differs from Some(g) after the step, the
\* step is a successful submit_feedback_proof of that session id for g, and
\* the feedback for g is the last one recorded.  start_game writes a fresh
\* session, pending_guess_id None, over a session that awaits feedback.  TLC
\* finds the step.
C21_LockReleasedByFeedbackOnly ==
    [][ \A session_id \in SessionIds :
          ( /\ HasSession(session_id)
            /\ IsSome(Session(session_id).pending_guess_id)
            /\ Unwrap(games'[session_id]).pending_guess_id
                 # Session(session_id).pending_guess_id ) =>
              LET after == Unwrap(games'[session_id])
              IN  /\ last'.op = "submit_feedback_proof"
                  /\ last'.sid = session_id
                  /\ last'.res = "Ok"
                  /\ Len(after.feedbacks) = Len(Session(session_id).feedbacks) + 1
                  /\ after.feedbacks[Len(after.feedbacks)].guess_id
                       = Unwrap(Session(session_id).pending_guess_id) ]_vars

\* C22 (progress), as the specification states it: with players that keep
\* playing, a session whose commitment is set eventually reaches Ended.
\* start_game writes a fresh session, without commitment and not ended, over
\* a session in play: the session that was in play never reaches Ended.  TLC
\* finds the behaviour.
C22_CommittedSessionEnds ==
    \A session_id \in SessionIds :
      (HasSession(session_id) /\ IsSome(Session(session_id).commitment))
        ~> (HasSession(session_id) /\ Session(session_id).ended)

\* The blob lengths of the three known proof sizes with 6 public inputs.
AcceptedLengths == { 4 + 32 * (p + 6) : p \in {456, 440, 234} }

\* C23 (accepted artifact sizes).  Whenever the parser has run on a blob of
\* length L: if the blob passes the public-input equality check against a
\* canonical 6-field vector, then L = 4 + 32*(p + 6) for some p of 456, 440,
\* 234 and the bytes compared are the 192 bytes after the header; for each
\* of these three lengths the parser answers Ok with the range that
\* candidate p leaves, 192 bytes, and a blob built from a canonical vector and
\* p proof fields passes the check against that vector; for every other
\* length the parser fails with InvalidProofBlob or the bytes it returns
\* differ from every canonical vector (InvalidPublicInputs).
C23_AcceptedArtifactSizes ==
    ParserHasRun =>
      LET input == Unwrap(parsed.input)
          output == Unwrap(parsed.output)
          blob == BlobOf(input)
          L == Len(blob)
      IN  /\ \A tuple \in ParserTuples :
               (output.ok /\ ~public_inputs_differ(PublicInputsOf(tuple), output.val)) =>
                  /\ \E p \in {456, 440, 234} :
                       /\ L = 4 + 32 * (p + 6)
                       /\ Len(output.val) = (L - 4) - 32 * p
                  /\ output.val = ByteRange(blob, 4, 4 + 192)
          /\ \A p \in {456, 440, 234} :
               L = 4 + 32 * (p + 6) =>
                  /\ output.ok
                  /\ output.val = ByteRange(blob, 4, 4 + (L - 4) - 32 * p)
                  /\ Len(output.val) = 192
                  /\ ~public_inputs_differ(PublicInputsOf(input.tuple), output.val)
          /\ L \notin AcceptedLengths =>
               \/ ~output.ok /\ output.err = "InvalidProofBlob"
               \/ /\ output.ok
                  /\ \A tuple \in ParserTuples :
                       public_inputs_differ(PublicInputsOf(tuple), output.val)

\* C23 witness: the parser has run on a blob of 4 + 32*(440 + 6) bytes and
\* the bytes it returns pass the equality check.
C23_Witness ==
    /\ ParserHasRun
    /\ Len(BlobOf(Unwrap(parsed.input))) = 4 + 32 * (440 + 6)
    /\ Unwrap(parsed.output).ok
    /\ ~public_inputs_differ(PublicInputsOf(Unwrap(parsed.input).tuple),
                             Unwrap(parsed.output).val)

\* C24 (AttemptsExhausted is unreachable).  In every reachable state a
\* session with attempts_used >= max_attempts is ended; submit_guess on such
\* a session returns GameAlreadyEnded for every code and every approval; and
\* no submit_guess, made or possible in the state, returns AttemptsExhausted.
C24_AttemptsExhaustedUnreachable ==
    /\ last.res # "AttemptsExhausted"
    /\ \A session_id \in SessionIds :
         HasSession(session_id) =>
           /\ Session(session_id).attempts_used >= Session(session_id).max_attempts =>
                /\ Session(session_id).ended
                /\ \A auth \in AuthSets, guess \in AllGuessCodes :
                     submit_guess(session_id, guess, auth).res = "GameAlreadyEnded"
           /\ \A auth \in AuthSets, guess \in AllGuessCodes :
                submit_guess(session_id, guess, auth).res # "AttemptsExhausted"

\* C24 witness: a guess was submitted, with the codebreaker's approval, to a
\* session that has used all its attempts without being solved, and was
\* turned down with GameAlreadyEnded.
C24_Witness ==
    /\ last.op = "submit_guess"
    /\ last.res = "GameAlreadyEnded"
    /\ Session(last.sid).player2 \in last.auth
    /\ Session(last.sid).attempts_used = Session(last.sid).max_attempts
    /\ ~Session(last.sid).solved

\* C25 (bookkeeping).  In every reachable state, for every stored session:
\* next_guess_id = len(guesses) <= max_attempts; the i-th guess record
\* (counting from 0) has guess_id = i; attempts_used = len(feedbacks); the
\* i-th feedback record has guess_id = i; pending_guess_id is Some(g) exactly
\* when len(guesses) = len(feedbacks) + 1, and then g = next_guess_id - 1 and
\* the session is not ended; otherwise len(guesses) = len(feedbacks); and
\* the lookup of the pending guess by its id finds the record of that guess.
C25_Bookkeeping ==
    \A session_id \in SessionIds :
      HasSession(session_id) =>
        LET game == Session(session_id)
        IN  /\ game.next_guess_id = Len(game.guesses)
            /\ Len(game.guesses) <= game.max_attempts
            /\ \A i \in 1..Len(game.guesses) : game.guesses[i].guess_id = i - 1
            /\ game.attempts_used = Len(game.feedbacks)
            /\ \A i \in 1..Len(game.feedbacks) : game.feedbacks[i].guess_id = i - 1
            /\ IsSome(game.pending_guess_id) <=>
                 Len(game.guesses) = Len(game.feedbacks) + 1
            /\ IsSome(game.pending_guess_id) =>
                 /\ Unwrap(game.pending_guess_id) = game.next_guess_id - 1
                 /\ ~game.ended
                 /\ IsSome(guess_by_id(game, Unwrap(game.pending_guess_id)))
                 /\ guess_by_id(game, Unwrap(game.pending_guess_id))
                      = Some(game.guesses[Len(game.guesses)].guess)
            /\ IsNone(game.pending_guess_id) =>
                 Len(game.guesses) = Len(game.feedbacks)

\* C25 witness: the third guess was accepted and is pending, two feedbacks
\* are recorded.
C25_Witness ==
    /\ last.op = "submit_guess"
    /\ last.res = "Ok"
    /\ Session(last.sid).pending_guess_id = Some(2)
    /\ Len(Session(last.sid).guesses) = 3
    /\ Len(Session(last.sid).feedbacks) = 2

=============================================================================
